---- MODULE Spec2Model ----
\* Verification model of nfsu/emu: the TStack push/pop protocol, the Memory
\* address-space manager (its three revisions and both platform branches), the
\* MemoryBanks storage and the flag-setting ALU / shift primitives.
EXTENDS Integers, Sequences, FiniteSets, TLC

VARIABLES
    \* ---- TStack (include/emu/stack.hpp and its revision) ----
    stackRev,      \* "increment" (stack.hpp) or "bytewise" (revision)
    isAscending,   \* template parameter
    isEmpty,       \* template parameter
    sizeofT,       \* sizeof(T) of the element type
    sp0,           \* stack pointer before the first push
    sp,            \* AddressSpace &sp
    stackMem,      \* the bytes behind Memory &m, by address
    pushed,        \* values pushed and not yet popped, oldest first
    popped,        \* what the last pop returned and what the matching push stored
    lastPush,      \* pointer before / after the last push and the value pushed
    \* ---- Memory (include/emu/memory.hpp and its revisions) ----
    rev,           \* "banked", "program" or "allocator"
    posix,         \* TRUE: the #else branch, FALSE: the _WIN32 branch
    virtualMemory, \* Mapping::virtualMemory (banked revision)
    memory,        \* List<ProgramMemoryRange> memory
    ranges,        \* List<Range> ranges
    pc,            \* "new", "program", "guest", "live", "destroyed", "fatal", "crashed"
    idx,           \* index of the next range the constructor visits
    prot,          \* platform: protection of every host address
    bytes,         \* platform: content of every host address
    calls,         \* platform requests issued so far, in order
    ops,           \* number of get / set calls served
    written,       \* set<T> calls whose bytes no later write overlapped
    got,           \* the last get<T> since the last set<T>: address, width, value
    \* ---- ALU (CMakeLists.txt lines 36-240) ----
    aluOp, aluW, aluA, aluB,   \* pending primitive, width and operands
    aluDone,       \* the primitive has run
    aluC,          \* returned value
    cpsr,          \* status register after the call
    cpsr0,         \* status register before the call
    \* ---- MemoryBanks (include/emu/memory.hpp) ----
    banks, bankSize,   \* usz banks, bankSize
    def,           \* Buffer def: the source image, def[1] is source position 0
    offset,        \* usz offset
    sliceEnd,      \* usz end
    allocated,     \* Buffer allocated
    bankPc,        \* "new", "plain", "seeded", "crashed"
    defRead,       \* source positions the constructor read
    copied,        \* number of bytes the constructor copied
    lastBank       \* what the last bank(i) returned, relative to allocated.data()

stackVars == <<stackRev, isAscending, isEmpty, sizeofT, sp0, sp, stackMem, pushed, popped, lastPush>>
memVars == <<rev, posix, virtualMemory, memory, ranges, pc, idx, prot, bytes, calls, ops, written, got>>
aluVars == <<aluOp, aluW, aluA, aluB, aluDone, aluC, cpsr, cpsr0>>
bankVars == <<banks, bankSize, def, offset, sliceEnd, allocated, bankPc, defRead, copied, lastBank>>
vars == <<stackVars, memVars, aluVars, bankVars>>

\* ------------------------------------------------------------------
\* Bounds
\* ------------------------------------------------------------------
AddrBits == 4        \* width of the stack's AddressSpace type in the model
MaxDepth == 2        \* unmatched pushes at any time
HostTop == 12        \* host addresses are 0 .. HostTop
MaxOps == 2          \* get / set calls per Memory instance
MaxBanks == 2        \* banks and bankSize are 0 .. MaxBanks
MaxDef == 3          \* the source image has 0 .. MaxDef bytes

\* ------------------------------------------------------------------
\* Fixed-width integer helpers
\* ------------------------------------------------------------------
RECURSIVE Pow2(_)
Pow2(n) == IF n = 0 THEN 1 ELSE 2 * Pow2(n - 1)

RECURSIVE BitOrN(_, _, _)
BitOrN(x, y, n) ==
    IF n = 0 THEN 0
    ELSE (IF (x % 2) + (y % 2) > 0 THEN 1 ELSE 0) + 2 * BitOrN(x \div 2, y \div 2, n - 1)

\* A value of a w-byte type is written as its w base-256 digits, most
\* significant first: <<4, 3, 2, 1>> is 0x04030201.  In memory its bytes lie
\* lowest digit first (the hosts the library targets are little-endian).
ToBytes(v, w) == [i \in 0..(w - 1) |-> v[w - i]]

FromBytes(b, w) == [i \in 1..w |-> b[w - i]]

\* Values of a w-byte type used as inputs: 0x..030201, whose bytes are
\* pairwise distinct and non-zero, and the all-ones value.
Values(w) == {[i \in 1..w |-> w - i + 1], [i \in 1..w |-> 255]}

\* ------------------------------------------------------------------
\* TStack
\* ------------------------------------------------------------------
AddrSpace == Pow2(AddrBits)

StackRevs == {"increment", "bytewise"}
ElemSizes == {1, 2, 4}

\* m.set(sp, a) / m.get<T>(sp) of the Memory the stack is handed: a width-T
\* store / load at the address, in the AddressSpace type's arithmetic.
StackSet(m, a, v, w) ==
    [x \in DOMAIN m |->
        IF \E i \in 0..(w - 1) : x = (a + i) % AddrSpace
        THEN ToBytes(v, w)[(x - a) % AddrSpace]
        ELSE m[x]]

StackGet(m, a, w) == FromBytes([i \in 0..(w - 1) |-> m[(a + i) % AddrSpace]], w)

\* static constexpr AddressSpace increment
increment(asc, w) == IF ~asc THEN (AddrSpace - w) % AddrSpace ELSE w % AddrSpace

AddSp(a, d) == (a + d) % AddrSpace
SubSp(a, d) == (a + AddrSpace - (d % AddrSpace)) % AddrSpace

\* push of stack.hpp: returns <<sp', memory', address stored at>>
pushIncrement(m, s, v, asc, emp, w) ==
    IF ~emp
    THEN LET s1 == AddSp(s, increment(asc, w)) IN <<s1, StackSet(m, s1, v, w), s1>>
    ELSE <<AddSp(s, increment(asc, w)), StackSet(m, s, v, w), s>>

\* pop of stack.hpp: returns <<sp', value>>
popIncrement(m, s, asc, emp, w) ==
    IF ~emp
    THEN <<SubSp(s, increment(asc, w)), StackGet(m, s, w)>>
    ELSE LET s1 == SubSp(s, increment(asc, w)) IN <<s1, StackGet(m, s1, w)>>

\* push of the revision: sp -= sizeof(T) - 1; set; --sp   /   sp += increment; set
pushBytewise(m, s, v, asc, emp, w) ==
    IF ~emp
    THEN LET s1 == SubSp(s, w - 1) IN <<SubSp(s1, 1), StackSet(m, s1, v, w), s1>>
    ELSE LET s1 == AddSp(s, increment(asc, w)) IN <<s1, StackSet(m, s1, v, w), s1>>

\* pop of the revision: ++sp; get; sp += sizeof(T) - 1   /   sp -= increment; get
popBytewise(m, s, asc, emp, w) ==
    IF ~emp
    THEN LET s1 == AddSp(s, 1) IN <<AddSp(s1, w - 1), StackGet(m, s1, w)>>
    ELSE LET s1 == SubSp(s, increment(asc, w)) IN <<s1, StackGet(m, s1, w)>>

push(r, m, s, v, asc, emp, w) ==
    IF r = "increment" THEN pushIncrement(m, s, v, asc, emp, w)
    ELSE pushBytewise(m, s, v, asc, emp, w)

pop(r, m, s, asc, emp, w) ==
    IF r = "increment" THEN popIncrement(m, s, asc, emp, w)
    ELSE popBytewise(m, s, asc, emp, w)

NoPop == [got |-> <<>>, want |-> <<>>, done |-> FALSE]
NoPush == [before |-> 0, after |-> 0, at |-> 0, value |-> <<>>, done |-> FALSE]

InitStack ==
    /\ stackRev \in StackRevs
    /\ isAscending \in BOOLEAN
    /\ isEmpty \in BOOLEAN
    /\ sizeofT \in ElemSizes
    /\ sp0 \in 0..(AddrSpace - 1)
    /\ sp = sp0
    /\ stackMem = [x \in 0..(AddrSpace - 1) |-> 0]
    /\ pushed = <<>>
    /\ popped = NoPop
    /\ lastPush = NoPush

Push ==
    /\ Len(pushed) < MaxDepth
    /\ \E v \in Values(sizeofT) :
        LET r == push(stackRev, stackMem, sp, v, isAscending, isEmpty, sizeofT) IN
        /\ sp' = r[1]
        /\ stackMem' = r[2]
        /\ pushed' = Append(pushed, v)
        /\ lastPush' = [before |-> sp, after |-> r[1], at |-> r[3], value |-> v, done |-> TRUE]
    /\ popped' = NoPop
    /\ UNCHANGED <<stackRev, isAscending, isEmpty, sizeofT, sp0>>

Pop ==
    /\ Len(pushed) > 0
    /\ LET r == pop(stackRev, stackMem, sp, isAscending, isEmpty, sizeofT) IN
        /\ sp' = r[1]
        /\ popped' = [got |-> r[2], want |-> pushed[Len(pushed)], done |-> TRUE]
    /\ pushed' = SubSeq(pushed, 1, Len(pushed) - 1)
    /\ lastPush' = NoPush
    /\ UNCHANGED <<stackRev, isAscending, isEmpty, sizeofT, sp0, stackMem>>

\* ------------------------------------------------------------------
\* Memory: configuration
\* ------------------------------------------------------------------
Host == 0..HostTop

\* MemoryRange(start, size, write, name, altName, initMemory, allocate)
Range(s, n, w, a, init) ==
    [start |-> s, size |-> n, write |-> w, allocate |-> a, initMemory |-> init]

\* usz end() const { return usz(start) + size; }
end(r) == r.start + r.size

\* Address-space layouts of the revisions with a ProgramMemoryRange list.  The
\* host intervals of the ranges of one layout are pairwise disjoint, as the
\* range lists are documented to be.
ProgramLayouts ==
    { [memory |-> <<Range(0, 2, TRUE, TRUE, <<7>>), Range(2, 6, TRUE, FALSE, <<>>)>>,
       ranges |-> <<Range(0, 2, TRUE, TRUE, <<1, 2>>), Range(2, 2, FALSE, TRUE, <<3>>),
                    Range(4, 2, TRUE, FALSE, <<>>)>>],
      [memory |-> <<Range(1, 2, FALSE, TRUE, <<9, 9>>), Range(3, 4, TRUE, FALSE, <<>>)>>,
       ranges |-> <<Range(1, 2, TRUE, TRUE, <<5>>), Range(3, 0, TRUE, TRUE, <<>>)>>],
      [memory |-> <<Range(0, 2, TRUE, TRUE, <<1, 2, 3>>), Range(2, 2, TRUE, TRUE, <<4>>)>>,
       ranges |-> <<>>],
      [memory |-> <<Range(0, 2, TRUE, TRUE, <<>>), Range(2, 4, TRUE, FALSE, <<1, 2, 3, 4, 5>>)>>,
       ranges |-> <<Range(0, 0, TRUE, TRUE, <<1>>), Range(0, 2, FALSE, TRUE, <<>>)>>],
      [memory |-> <<Range(0, 1, TRUE, TRUE, <<>>), Range(1, 5, TRUE, FALSE, <<>>)>>,
       ranges |-> <<Range(0, 2, TRUE, TRUE, <<8>>), Range(2, 2, FALSE, TRUE, <<1, 2, 3>>),
                    Range(4, 1, TRUE, TRUE, <<6>>)>>],
      [memory |-> <<Range(4, 2, TRUE, TRUE, <<>>), Range(6, 2, TRUE, FALSE, <<>>)>>,
       ranges |-> <<Range(0, 2, TRUE, TRUE, <<1>>)>>] }

\* Layouts of the banked revision: Mapping::virtualMemory and the range list
\* (its MemoryRange has no allocate member: every range is allocated).
BankedLayouts ==
    { [virtualMemory |-> <<8, 4>>,
       ranges |-> <<Range(0, 2, TRUE, TRUE, <<1>>), Range(2, 2, FALSE, TRUE, <<3, 4>>)>>],
      [virtualMemory |-> <<0, 8>>,
       ranges |-> <<Range(0, 4, TRUE, TRUE, <<>>), Range(4, 2, FALSE, TRUE, <<5>>),
                    Range(6, 0, TRUE, TRUE, <<>>)>>],
      [virtualMemory |-> <<8, 4>>,
       ranges |-> <<Range(0, 2, TRUE, TRUE, <<1, 2>>), Range(2, 2, TRUE, TRUE, <<1, 2, 3>>)>>] }

\* Layouts with a writable range wide enough for an 8-byte access.
WideProgramLayouts ==
    { [memory |-> <<Range(0, 1, TRUE, TRUE, <<>>), Range(1, 9, TRUE, FALSE, <<>>)>>,
       ranges |-> <<Range(0, 8, TRUE, TRUE, <<4, 5>>), Range(8, 1, FALSE, TRUE, <<6>>)>>] }

WideBankedLayouts ==
    { [virtualMemory |-> <<0, 9>>,
       ranges |-> <<Range(0, 8, TRUE, TRUE, <<4, 5>>), Range(8, 1, FALSE, TRUE, <<6>>)>>] }

Widths == {1, 2, 4, 8}

\* ------------------------------------------------------------------
\* Memory: the platform behind reserve / commit / protect / release
\* ------------------------------------------------------------------
Interval(b, n) == {h \in Host : b <= h /\ h < b + n}

Committed(p, h) == p[h] \in {"rw", "ro"}

\* reserve(address, length)
PlatformReserve(p, b, n) == [h \in Host |-> IF h \in Interval(b, n) THEN "reserved" ELSE p[h]]

\* A commit needs reserved address space, except an mmap with MAP_FIXED, which
\* maps wherever it is told to.
CommitAllowed(p, b, n) == posix \/ \A h \in Interval(b, n) : p[h] # "free"

\* commit(address, length): read-write pages; fresh pages read as zero.
PlatformCommitProt(p, b, n) == [h \in Host |-> IF h \in Interval(b, n) THEN "rw" ELSE p[h]]

PlatformCommitBytes(p, by, b, n) ==
    [h \in Host |-> IF h \in Interval(b, n) /\ (posix \/ ~Committed(p, h)) THEN 0 ELSE by[h]]

\* protectReadOnly(address, length)
ProtectAllowed(p, b, n) == \A h \in Interval(b, n) : Committed(p, h)

PlatformProtect(p, b, n) == [h \in Host |-> IF h \in Interval(b, n) THEN "ro" ELSE p[h]]

\* release(address, length)
PlatformRelease(p, region) == [h \in Host |-> IF h \in region THEN "free" ELSE p[h]]

\* memcpy / memset into host memory: data[1..] goes to b, b+1, ...
CanStore(p, b, n) == \A h \in Interval(b, n) : p[h] = "rw"

Store(by, b, data) ==
    [h \in Host |-> IF h \in Interval(b, Len(data)) THEN data[h - b + 1] ELSE by[h]]

Zeros(n) == [i \in 1..n |-> 0]

Call(op, b, n, ro, ok, tag) ==
    [op |-> op, base |-> b, len |-> n, readOnly |-> ro, ok |-> ok, range |-> tag]

\* ------------------------------------------------------------------
\* Memory: address mapping and typed access
\* ------------------------------------------------------------------
\* Mapping::map: the host address behind a guest address.  The banked
\* revision ors the address into the base of the virtual memory; the later
\* revisions lay guest memory out after the first program range.
MapAddr(a) ==
    IF rev = "banked" THEN BitOrN(virtualMemory[1], a, 8) ELSE memory[1].size + a

Accessible(p, a, w, states) ==
    /\ MapAddr(a) + w - 1 <= HostTop
    /\ \A h \in Interval(MapAddr(a), w) : p[h] \in states

\* Mapping::write / Mapping::read: a width-w store / load at the host address.
MappingWrite(by, a, v, w) == Store(by, MapAddr(a), [i \in 1..w |-> ToBytes(v, w)[i - 1]])

MappingRead(by, a, w) == FromBytes([i \in 0..(w - 1) |-> by[MapAddr(a) + i]], w)

\* MemoryPointer::operator=(const T &t) and MemoryPointer::operator T()
PointerAssign(by, v, t, w) == MappingWrite(by, v, t, w)

PointerRead(by, v, w) == MappingRead(by, v, w)

\* Memory::set<T>(ptr, t) and Memory::get<T>(ptr)
setNarrow(by, ptr, t, w) == PointerAssign(by, ptr, [i \in 1..w |-> IF i = w THEN t[i] ELSE 0], w)
set(by, ptr, t, w) == PointerAssign(by, ptr, t, w)

get(by, ptr, w) == PointerRead(by, ptr, w)

Overlap(a1, w1, a2, w2) == Interval(MapAddr(a1), w1) \cap Interval(MapAddr(a2), w2) # {}

\* ------------------------------------------------------------------
\* Memory: construction
\* ------------------------------------------------------------------
Outcome(st, p, by, cl) == [st |-> st, prot |-> p, bytes |-> by, calls |-> cl]

\* The platform checks.  VirtualAlloc and allocRange return null / false on
\* failure and the code tests for that; mmap returns MAP_FAILED, which the
\* test `!mmap(...)` does not recognise.
FailureSeen(ok) == ~ok /\ (rev = "allocator" \/ ~posix)

\* The arguments of the one reserve request: <<base, length>>.  The
\* constructors of the later revisions pass memory.last().end() where
\* reserve takes a size.
reserveArgs ==
    IF rev = "banked" THEN <<virtualMemory[1], virtualMemory[2]>>
    ELSE <<memory[1].start, end(memory[Len(memory)])>>

\* The arguments of the release request; length 0 stands for VirtualFree's
\* "the whole reservation at this base".
releaseArgs ==
    IF rev = "banked" THEN <<virtualMemory[1], IF posix THEN virtualMemory[2] ELSE 0>>
    ELSE IF rev = "program"
    THEN <<memory[1].start,
           IF posix THEN end(memory[Len(memory)]) - memory[1].start ELSE 0>>
    ELSE <<memory[1].start, end(memory[Len(memory)])>>

\* Host address a range is committed at.
programHost(r) == r.start

guestHost(r) ==
    IF rev = "banked" THEN BitOrN(virtualMemory[1], r.start, 8) ELSE memory[1].size + r.start

\* Whether the constructor allocates the range at all.
toAllocate(r) == r.size # 0 /\ (rev = "banked" \/ r.allocate)

\* initMemory: <<state, bytes>> after the initial contents were put in place.
initMemory(p, by, r, h) ==
    IF rev = "banked"
    THEN IF ~CanStore(p, h, r.size) THEN <<"crashed", by>>
         ELSE LET z == Store(by, h, Zeros(r.size)) IN
              IF Len(r.initMemory) <= r.size
              THEN <<"ok", IF Len(r.initMemory) # 0 THEN Store(z, h, r.initMemory) ELSE z>>
              ELSE <<"fatal", z>>
    ELSE IF Len(r.initMemory) <= r.size
         THEN IF Len(r.initMemory) # 0
              THEN IF CanStore(p, h, Len(r.initMemory))
                   THEN <<"ok", Store(by, h, r.initMemory)>>
                   ELSE <<"crashed", by>>
              ELSE <<"ok", by>>
         ELSE <<"fatal", by>>

\* What the test before the protect request reads.  The _WIN32 branches and
\* the banked revision test the range's write flag; the #else branch of the
\* program revision names its parameter `writable` and tests `write`, which
\* there is not the parameter and never false.
writeTested(r) == IF rev = "program" /\ posix THEN TRUE ELSE r.write

\* allocate of the banked and program revisions: commit, initMemory, protect.
allocateNative(p, by, cl, r, h, tag, okC, okP) ==
    LET okc == okC /\ CommitAllowed(p, h, r.size)
        cl1 == Append(cl, Call("commit", h, r.size, FALSE, okc, tag))
        p1 == IF okc THEN PlatformCommitProt(p, h, r.size) ELSE p
        b1 == IF okc THEN PlatformCommitBytes(p, by, h, r.size) ELSE by
        ini == initMemory(p1, b1, r, h)
        okp == okP /\ ProtectAllowed(p1, h, r.size)
        cl2 == Append(cl1, Call("protect", h, r.size, TRUE, okp, tag))
    IN  IF FailureSeen(okc) THEN Outcome("fatal", p1, b1, cl1)
        ELSE IF ini[1] # "ok" THEN Outcome(ini[1], p1, ini[2], cl1)
        ELSE IF writeTested(r) THEN Outcome("ok", p1, ini[2], cl1)
        ELSE IF ~okp THEN Outcome("fatal", p1, ini[2], cl2)
        ELSE Outcome("ok", PlatformProtect(p1, h, r.size), ini[2], cl2)

\* commitFlags of the allocator revision: TRUE when READ_ONLY is requested.
commitFlags(write) == ~write

\* allocate of the allocator revision: size check, then one allocRange that
\* commits, fills in the contents and applies the protection.
allocateAllocator(p, by, cl, r, h, tag, okC) ==
    IF Len(r.initMemory) > r.size THEN Outcome("fatal", p, by, cl)
    ELSE LET okc == okC /\ CommitAllowed(p, h, r.size)
             cl1 == Append(cl, Call("commit", h, r.size, commitFlags(r.write), okc, tag))
             p1 == PlatformCommitProt(p, h, r.size)
             b1 == Store(PlatformCommitBytes(p, by, h, r.size), h, r.initMemory)
         IN  IF FailureSeen(okc) THEN Outcome("fatal", p, by, cl1)
             ELSE Outcome("ok",
                          IF commitFlags(r.write) THEN PlatformProtect(p1, h, r.size) ELSE p1,
                          b1, cl1)

allocate(p, by, cl, r, h, tag, okC, okP) ==
    IF rev = "allocator" THEN allocateAllocator(p, by, cl, r, h, tag, okC)
    ELSE allocateNative(p, by, cl, r, h, tag, okC, okP)

\* Where the constructor goes after the range at position i of a list.
afterProgram(i) ==
    IF i < Len(memory) THEN <<"program", i + 1>>
    ELSE IF Len(ranges) > 0 THEN <<"guest", 1>> ELSE <<"live", 0>>

afterGuestAgain(i) ==
    IF i < Len(ranges) THEN <<"guest", i + 1>>
    ELSE IF i > 1 THEN <<"guest", 1>> ELSE <<"live", 0>>
afterGuest(i) == IF i < Len(ranges) THEN <<"guest", i + 1>> ELSE <<"live", 0>>

afterReserve ==
    IF rev = "banked" THEN (IF Len(ranges) > 0 THEN <<"guest", 1>> ELSE <<"live", 0>>)
    ELSE <<"program", 1>>

NoGet == [addr |-> 0, width |-> 0, value |-> <<>>, done |-> FALSE]

config == <<rev, posix, virtualMemory, memory, ranges>>

\* The builds: each revision with the platform branch it is compiled for (the
\* allocator revision has no platform branch of its own).
Builds == {<<"banked", FALSE>>, <<"banked", TRUE>>, <<"program", FALSE>>,
           <<"program", TRUE>>, <<"allocator", FALSE>>}

InitMemory(builds, programLayouts, bankedLayouts) ==
    /\ \E b \in builds :
        /\ rev = b[1]
        /\ posix = b[2]
        /\ IF b[1] = "banked"
           THEN /\ memory = <<>>
                /\ \E l \in bankedLayouts :
                      virtualMemory = l.virtualMemory /\ ranges = l.ranges
           ELSE /\ virtualMemory = <<0, 0>>
                /\ \E l \in programLayouts : memory = l.memory /\ ranges = l.ranges
    /\ pc = "new"
    /\ idx = 0
    /\ prot = [h \in Host |-> "free"]
    /\ bytes = [h \in Host |-> 0]
    /\ calls = <<>>
    /\ ops = 0
    /\ written = {}
    /\ got = NoGet

\* The constructor's reserve(...) / allocate().
Reserve ==
    /\ pc = "new"
    /\ \E ok \in BOOLEAN :
        LET a == reserveArgs IN
        /\ calls' = Append(calls, Call("reserve", a[1], a[2], FALSE, ok, <<"span", 0>>))
        /\ prot' = IF ok THEN PlatformReserve(prot, a[1], a[2]) ELSE prot
        /\ pc' = IF FailureSeen(ok) THEN "fatal" ELSE afterReserve[1]
        /\ idx' = IF FailureSeen(ok) THEN 0 ELSE afterReserve[2]
    /\ UNCHANGED <<config, bytes, ops, written, got>>

\* One iteration of a constructor loop over range r, committed at host h.
Visit(r, h, tag, next) ==
    IF ~toAllocate(r)
    THEN /\ pc' = next[1]
         /\ idx' = next[2]
         /\ UNCHANGED <<prot, bytes, calls>>
    ELSE \E okC, okP \in BOOLEAN :
            LET o == allocate(prot, bytes, calls, r, h, tag, okC, okP) IN
            /\ prot' = o.prot
            /\ bytes' = o.bytes
            /\ calls' = o.calls
            /\ pc' = IF o.st = "ok" THEN next[1] ELSE o.st
            /\ idx' = IF o.st = "ok" THEN next[2] ELSE idx

\* for (ProgramMemoryRange &range : memory) ...
AllocateProgram ==
    /\ pc = "program"
    /\ Visit(memory[idx], programHost(memory[idx]), <<"program", idx>>, afterProgram(idx))
    /\ UNCHANGED <<config, ops, written, got>>

\* for (Range &range : ranges) ...
AllocateGuest ==
    /\ pc = "guest"
    /\ Visit(ranges[idx], guestHost(ranges[idx]), <<"guest", idx>>, afterGuest(idx))
    /\ UNCHANGED <<config, ops, written, got>>

\* ------------------------------------------------------------------
\* Memory: access and destruction
\* ------------------------------------------------------------------
\* m.set<T>(a, v): a store the platform rejects ends the process.
Set ==
    /\ pc = "live"
    /\ ops < MaxOps
    /\ \E w \in Widths : \E a \in Host : \E v \in Values(w) :
        IF Accessible(prot, a, w, {"rw"})
        THEN /\ bytes' = set(bytes, a, v, w)
             /\ written' = {x \in written : ~Overlap(x.addr, x.width, a, w)}
                              \cup {[addr |-> a, width |-> w, value |-> v]}
             /\ pc' = pc
        ELSE /\ pc' = "crashed"
             /\ UNCHANGED <<bytes, written>>
    /\ ops' = ops + 1
    /\ got' = NoGet
    /\ UNCHANGED <<config, idx, prot, calls>>

\* m.get<T>(a)
Get ==
    /\ pc = "live"
    /\ ops < MaxOps
    /\ \E w \in Widths : \E a \in Host :
        IF Accessible(prot, a, w, {"rw", "ro"})
        THEN /\ got' = [addr |-> a, width |-> w, value |-> get(bytes, a, w), done |-> TRUE]
             /\ pc' = pc
        ELSE /\ pc' = "crashed"
             /\ got' = got
    /\ ops' = ops + 1
    /\ UNCHANGED <<config, idx, prot, bytes, calls, written>>

\* The region a release request frees.
releasedRegion(cl, a) ==
    IF a[2] = 0
    THEN UNION {Interval(cl[i].base, cl[i].len) :
                   i \in {j \in DOMAIN cl : cl[j].op = "reserve" /\ cl[j].ok /\ cl[j].base = a[1]}}
    ELSE Interval(a[1], a[2])

\* ~Memory(): free(...); its result is not looked at.
Destruct ==
    /\ pc = "live"
    /\ \E ok \in BOOLEAN :
        LET a == releaseArgs IN
        /\ calls' = Append(calls, Call("release", a[1], a[2], FALSE, ok, <<"span", 0>>))
        /\ prot' = IF ok THEN PlatformRelease(prot, releasedRegion(calls, a)) ELSE prot
    /\ pc' = "destroyed"
    /\ UNCHANGED <<config, idx, bytes, ops, written, got>>

\* ------------------------------------------------------------------
\* ALU and shift primitives
\* ------------------------------------------------------------------
\* Machine integers are bit vectors over the 32 bit positions of an int: the
\* operands of the narrower types are promoted to int before every operator,
\* and the result is converted back to the type T.
IntBits == 0..31

Vec(S) == [i \in IntBits |-> IF i \in S THEN 1 ELSE 0]

Zero == Vec({})
One == Vec({0})

FromNat(n) == [i \in IntBits |-> IF i < 16 THEN (n \div Pow2(i)) % 2 ELSE 0]

\* The number held in bits lo .. lo + n - 1.
RECURSIVE ToNat(_, _, _)
ToNat(x, lo, n) == IF n = 0 THEN 0 ELSE x[lo] + 2 * ToNat(x, lo + 1, n - 1)

And(x, y) == [i \in IntBits |-> x[i] * y[i]]
Or(x, y) == [i \in IntBits |-> IF x[i] + y[i] > 0 THEN 1 ELSE 0]
Not(x) == [i \in IntBits |-> 1 - x[i]]

RECURSIVE CarryInto(_, _, _)
CarryInto(x, y, i) ==
    IF i = 0 THEN 0 ELSE (x[i - 1] + y[i - 1] + CarryInto(x, y, i - 1)) \div 2

Plus(x, y) == [i \in IntBits |-> (x[i] + y[i] + CarryInto(x, y, i)) % 2]
Neg(x) == Plus(Not(x), One)
Minus(x, y) == Plus(x, Neg(y))

\* Unsigned x < y
Less(x, y) == \E i \in IntBits : x[i] < y[i] /\ \A j \in IntBits : j > i => x[j] = y[j]

\* T(x): conversion of an int / unsigned result to the w-bit type.
Trunc(x, w) == [i \in IntBits |-> IF i < w THEN x[i] ELSE 0]

\* x << n.  A count of 32 is undefined and yields either the operand (count
\* taken modulo 32) or zero, depending on the build.
shl(x, n) == IF n >= 32 THEN {x, Zero} ELSE {[i \in IntBits |-> IF i >= n THEN x[i - n] ELSE 0]}

\* x >> n of an unsigned or non-negative x, and of a negative int
shr(x, n) == [i \in IntBits |-> IF i + n <= 31 THEN x[i + n] ELSE 0]
sar(x, n) == [i \in IntBits |-> IF i + n <= 31 THEN x[i + n] ELSE x[31]]

AluWidths == {8, 16, 32}
AluOps == {"lsl", "lsr", "asr", "ror", "add", "sub"}

\* Operands of width w: every 8-bit value, and for the wider types the values
\* around zero, around the sign bit and around the maximum.
Edge(w) == {Zero, One, Vec({1}), Vec(0..(w - 2)), Vec({w - 1}), Vec({0, w - 1}),
            Vec({w - 2}), Vec(1..(w - 1)), Vec(0..(w - 1))}

Operands(w) == IF w = 8 THEN {FromNat(n) : n \in 0..255} ELSE Edge(w)

\* template<typename T> constexpr T bitSize / sign
bitSize(w) == w

sign(w) == Vec({bitSize(w) - 1})

\* The status register: cpsr.carry(x) sets the carry flag to "x is non-zero";
\* setCodes derives zero and negative from a result; setALU<borrow> derives all
\* four flags from the operand / result triple it is handed: overflow when
\* the operands share a sign the result does not have, carry as the carry out
\* of an addition and as "no borrow" of a subtraction.
Flags(c, z, n, v) == [carry |-> c, zero |-> z, negative |-> n, overflow |-> v]

carry(cp, x) == [cp EXCEPT !.carry = (x # Zero)]

setCodes(cp, c, w) == [cp EXCEPT !.zero = (c = Zero), !.negative = (c[w - 1] = 1)]

setALU(borrow, cp, a, b, c, w) ==
    Flags(IF borrow THEN ~Less(a, c) ELSE Less(c, a),
          c = Zero,
          c[w - 1] = 1,
          a[w - 1] = b[w - 1] /\ c[w - 1] # a[w - 1])

\* A shift count: the value of the operand b.
Count(b) == ToNat(b, 0, 8)

\* T c = a << b
lslValue(a, b, w) == Trunc(CHOOSE x \in shl(a, b) : TRUE, w)

\* T c = a & sign<T> ? ~(~a >> b) : a >> b.  For the 32-bit type ~a is an
\* unsigned value and the shift is logical; for the narrower types ~a is a
\* negative int and the shift is arithmetic.
asrValue(a, b, w) ==
    IF And(a, sign(w)) # Zero
    THEN Trunc(Not(IF w = 32 THEN shr(Not(a), b) ELSE sar(Not(a), b)), w)
    ELSE Trunc(shr(a, b), w)

\* cpsr.carry(a & (sign<T> >> (b - 1)))
lslCarryNext(cp, a, b, w) == carry(cp, And(a, shr(sign(w), b)))
lslCarry(cp, a, b, w) == carry(cp, And(a, shr(sign(w), b - 1)))

\* cpsr.carry(a & (1 << (b - 1)))
shrCarry(cp, a, b, w) == carry(cp, And(a, Vec({b - 1})))

NoFlags == Flags(FALSE, FALSE, FALSE, FALSE)
AllFlags == Flags(TRUE, TRUE, TRUE, TRUE)

\* template parameter S: the flag-setting variants
aluS == TRUE

InitALU ==
    /\ aluOp \in AluOps
    /\ aluW \in AluWidths
    /\ aluA \in Operands(aluW)
    /\ aluB \in (IF aluOp \in {"add", "sub"} THEN Edge(aluW)
                 ELSE {FromNat(n) : n \in 0..(aluW - 1)})
    /\ cpsr0 \in {NoFlags, AllFlags}
    /\ cpsr = cpsr0
    /\ aluDone = FALSE
    /\ aluC = Zero

Return(c, cp) ==
    /\ aluC' = c
    /\ cpsr' = cp
    /\ aluDone' = TRUE
    /\ UNCHANGED <<aluOp, aluW, aluA, aluB, cpsr0>>

Pending(op) == aluOp = op /\ ~aluDone

Lsl ==
    /\ Pending("lsl")
    /\ LET b == Count(aluB)
           cp == IF aluS /\ b # 0 THEN lslCarry(cpsr, aluA, b, aluW) ELSE cpsr
           c == lslValue(aluA, b, aluW)
       IN Return(c, IF aluS THEN setCodes(cp, c, aluW) ELSE cp)

Lsr ==
    /\ Pending("lsr")
    /\ LET b == Count(aluB)
           cp == IF aluS /\ b # 0 THEN shrCarry(cpsr, aluA, b, aluW) ELSE cpsr
           c == Trunc(shr(aluA, b), aluW)
       IN Return(c, IF aluS THEN setCodes(cp, c, aluW) ELSE cp)

Asr ==
    /\ Pending("asr")
    /\ LET b == Count(aluB)
           cp == IF aluS /\ b # 0 THEN shrCarry(cpsr, aluA, b, aluW) ELSE cpsr
           c == asrValue(aluA, b, aluW)
       IN Return(c, IF aluS THEN setCodes(cp, c, aluW) ELSE cp)

\* T c = (a >> b) | (a << (bitSize<T> - b))
Ror ==
    /\ Pending("ror")
    /\ \E hi \in shl(aluA, bitSize(aluW) - Count(aluB)) :
        LET b == Count(aluB)
            cp == IF aluS /\ b # 0 THEN shrCarry(cpsr, aluA, b, aluW) ELSE cpsr
            c == Trunc(Or(shr(aluA, b), hi), aluW)
        IN Return(c, IF aluS THEN setCodes(cp, c, aluW) ELSE cp)

\* T c = a + b; setALU<false>(a, b, c)
add(cp, a, b, w) ==
    LET c == Trunc(Plus(a, b), w) IN <<c, IF aluS THEN setALU(FALSE, cp, a, b, c, w) ELSE cp>>

\* T c = a - b; setALU<true>(a, T(-Signed_v<T>(b)), c)
sub(cp, a, b, w) ==
    LET c == Trunc(Minus(a, b), w) IN
    <<c, IF aluS THEN setALU(TRUE, cp, a, Trunc(Neg(b), w), c, w) ELSE cp>>

Add ==
    /\ Pending("add")
    /\ LET r == add(cpsr, aluA, aluB, aluW) IN Return(r[1], r[2])

Sub ==
    /\ Pending("sub")
    /\ LET r == sub(cpsr, aluA, aluB, aluW) IN Return(r[1], r[2])

\* ------------------------------------------------------------------
\* MemoryBanks
\* ------------------------------------------------------------------
\* usz arithmetic: differences wrap around; the type is scaled down to 8 bits.
usz(x) == (x + Pow2(8)) % Pow2(8)

Min(x, y) == IF x <= y THEN x ELSE y

\* What a read past the end of the source buffer may deliver.
Garbage == {0, 255}

\* The source images: position p holds the byte p + 1.
Images == {[i \in 1..k |-> i] : k \in 0..MaxDef}

InitBanks ==
    /\ banks \in 0..MaxBanks
    /\ bankSize \in 0..MaxBanks
    /\ def \in Images
    /\ offset \in 0..(MaxDef + 1)
    /\ sliceEnd \in 0..(MaxDef + 1)
    /\ allocated = <<>>
    /\ bankPc = "new"
    /\ defRead = {}
    /\ copied = 0
    /\ lastBank = 0

\* MemoryBanks(banks, bankSize): allocated(banks * bankSize), all zero.
ConstructPlain ==
    /\ bankPc = "new"
    /\ allocated' = Zeros(banks * bankSize)
    /\ bankPc' = "plain"
    /\ UNCHANGED <<banks, bankSize, def, offset, sliceEnd, defRead, copied, lastBank>>

\* The length handed to memcpy: min(end - offset, allocated.size()).
seedCount == Min(usz(sliceEnd - offset), banks * bankSize)

\* MemoryBanks(banks, bankSize, def, offset, end): the plain construction,
\* then the memcpy from def.data() + offset when offset and end pass the test.
\* A read past the end of def is undefined: it delivers some byte or faults.
ConstructSeeded ==
    /\ bankPc = "new"
    /\ IF offset <= Len(def) /\ sliceEnd <= Len(def)
       THEN LET n == seedCount
                src == offset..(offset + n - 1)
                past == {p \in src : p >= Len(def)}
            IN  /\ defRead' = src
                /\ \/ /\ \E g \in [past -> Garbage] :
                            allocated' = [i \in 1..(banks * bankSize) |->
                                             IF i > n THEN 0
                                             ELSE IF offset + i - 1 \in past THEN g[offset + i - 1]
                                             ELSE def[offset + i]]
                      /\ copied' = n
                      /\ bankPc' = "seeded"
                   \/ /\ past # {}
                      /\ allocated' = Zeros(banks * bankSize)
                      /\ copied' = 0
                      /\ bankPc' = "crashed"
       ELSE /\ allocated' = Zeros(banks * bankSize)
            /\ defRead' = {}
            /\ copied' = 0
            /\ bankPc' = "seeded"
    /\ UNCHANGED <<banks, bankSize, def, offset, sliceEnd, lastBank>>

\* bank(i): allocated.data() + i * bankSize; i is not checked.
bank(i) == i * bankSize

Bank ==
    /\ bankPc \in {"plain", "seeded"}
    /\ \E i \in 0..MaxBanks :
          /\ bank(i) # lastBank
          /\ lastBank' = bank(i)
    /\ UNCHANGED <<banks, bankSize, def, offset, sliceEnd, allocated, bankPc, defRead, copied>>

\* ------------------------------------------------------------------
\* Specifications
\* ------------------------------------------------------------------
IdleStack ==
    /\ stackRev = "increment"
    /\ isAscending = FALSE
    /\ isEmpty = FALSE
    /\ sizeofT = 1
    /\ sp0 = 0
    /\ sp = 0
    /\ stackMem = [x \in 0..(AddrSpace - 1) |-> 0]
    /\ pushed = <<>>
    /\ popped = NoPop
    /\ lastPush = NoPush

IdleMemory ==
    /\ rev = "allocator"
    /\ posix = FALSE
    /\ virtualMemory = <<0, 0>>
    /\ memory = <<>>
    /\ ranges = <<>>
    /\ pc = "idle"
    /\ idx = 0
    /\ prot = [h \in Host |-> "free"]
    /\ bytes = [h \in Host |-> 0]
    /\ calls = <<>>
    /\ ops = 0
    /\ written = {}
    /\ got = NoGet

IdleALU ==
    /\ aluOp = "none"
    /\ aluW = 8
    /\ aluA = Zero
    /\ aluB = Zero
    /\ cpsr0 = NoFlags
    /\ cpsr = NoFlags
    /\ aluDone = FALSE
    /\ aluC = Zero

IdleBanks ==
    /\ banks = 0
    /\ bankSize = 0
    /\ def = <<>>
    /\ offset = 0
    /\ sliceEnd = 0
    /\ allocated = <<>>
    /\ bankPc = "idle"
    /\ defRead = {}
    /\ copied = 0
    /\ lastBank = 0

\* The life of one Memory instance, over the small layouts.
Init == InitMemory(Builds, ProgramLayouts, BankedLayouts) /\ IdleStack /\ IdleALU /\ IdleBanks

Next ==
    \/ (Reserve /\ UNCHANGED <<stackVars, aluVars, bankVars>>)
    \/ (AllocateProgram /\ UNCHANGED <<stackVars, aluVars, bankVars>>)
    \/ (AllocateGuest /\ UNCHANGED <<stackVars, aluVars, bankVars>>)
    \/ (Set /\ UNCHANGED <<stackVars, aluVars, bankVars>>)
    \/ (Get /\ UNCHANGED <<stackVars, aluVars, bankVars>>)
    \/ (Destruct /\ UNCHANGED <<stackVars, aluVars, bankVars>>)

Spec == Init /\ [][Next]_vars

\* The same life over the layouts with a range wide enough for every width;
\* get and set are the same code in every revision, so one build of each
\* address mapping is followed.
AccessBuilds == {<<"banked", FALSE>>, <<"allocator", FALSE>>}

InitAccess ==
    InitMemory(AccessBuilds, WideProgramLayouts, WideBankedLayouts) /\ IdleStack /\ IdleALU /\ IdleBanks

SpecAccess == InitAccess /\ [][Next]_vars

\* One stack of one element type and convention.
InitStackOnly == InitStack /\ IdleMemory /\ IdleALU /\ IdleBanks

NextStack ==
    \/ (Push /\ UNCHANGED <<memVars, aluVars, bankVars>>)
    \/ (Pop /\ UNCHANGED <<memVars, aluVars, bankVars>>)

SpecStack == InitStackOnly /\ [][NextStack]_vars

\* One call of one ALU primitive.
InitALUOnly == InitALU /\ IdleStack /\ IdleMemory /\ IdleBanks

NextALU ==
    \/ (Lsl /\ UNCHANGED <<stackVars, memVars, bankVars>>)
    \/ (Lsr /\ UNCHANGED <<stackVars, memVars, bankVars>>)
    \/ (Asr /\ UNCHANGED <<stackVars, memVars, bankVars>>)
    \/ (Ror /\ UNCHANGED <<stackVars, memVars, bankVars>>)
    \/ (Add /\ UNCHANGED <<stackVars, memVars, bankVars>>)
    \/ (Sub /\ UNCHANGED <<stackVars, memVars, bankVars>>)

SpecALU == InitALUOnly /\ [][NextALU]_vars

\* One MemoryBanks object: construction, then bank queries.
InitBanksOnly == InitBanks /\ IdleStack /\ IdleMemory /\ IdleALU

NextBanks ==
    \/ (ConstructPlain /\ UNCHANGED <<stackVars, memVars, aluVars>>)
    \/ (ConstructSeeded /\ UNCHANGED <<stackVars, memVars, aluVars>>)
    \/ (Bank /\ UNCHANGED <<stackVars, memVars, aluVars>>)

SpecBanks == InitBanksOnly /\ [][NextBanks]_vars

\* ------------------------------------------------------------------
\* Properties
\* ------------------------------------------------------------------
\* C1: in each of the four stack conventions, for every element size and
\* starting pointer, each pop returns the value of the most recent unmatched
\* push, and once every push is matched the stack pointer is back at its value
\* before the first push.
StackRoundTrip ==
    /\ popped.done => popped.got = popped.want
    /\ pushed = <<>> => sp = sp0

RangeTags == {<<"program", i>> : i \in DOMAIN memory} \cup {<<"guest", i>> : i \in DOMAIN ranges}

RangeOf(t) == IF t[1] = "program" THEN memory[t[2]] ELSE ranges[t[2]]

HostOf(t) == IF t[1] = "program" THEN programHost(RangeOf(t)) ELSE guestHost(RangeOf(t))

HostsOf(t) == Interval(HostOf(t), RangeOf(t).size)

\* The byte the initial image of range t has at host address h: the initial
\* contents, then zeros.
ImageAt(t, h) ==
    LET k == h - HostOf(t) + 1 IN
    IF k <= Len(RangeOf(t).initMemory) THEN RangeOf(t).initMemory[k] ELSE 0

Rank(t) == IF t[1] = "program" THEN t[2] ELSE Len(memory) + t[2]

Constructed == pc = "live" \/ (pc = "crashed" /\ ops > 0)

\* C3: after a construction in which no request failed, every committed range declared writable=false is
\* read-only (the protection is requested right after the commit of that
\* range), no write into it was served and its bytes equal its initial image;
\* a range declared writable=true is never read-only.
WriteProtection ==
    /\ (Constructed /\ \A i \in DOMAIN calls : calls[i].ok) =>
          \A t \in RangeTags :
              (RangeOf(t).size # 0 /\ \A h \in HostsOf(t) : Committed(prot, h)) =>
                  IF RangeOf(t).write
                  THEN \A h \in HostsOf(t) : prot[h] # "ro"
                  ELSE /\ \A h \in HostsOf(t) : prot[h] = "ro" /\ bytes[h] = ImageAt(t, h)
                       /\ \A x \in written : Interval(MapAddr(x.addr), x.width) \cap HostsOf(t) = {}
    /\ \A i \in DOMAIN calls :
          calls[i].op = "protect" =>
              /\ i > 1
              /\ calls[i - 1].op = "commit"
              /\ calls[i - 1].range = calls[i].range
              /\ ~RangeOf(calls[i].range).write

\* C4: after construction and destruction (no request having failed) no
\* host address is left reserved or committed, and the region handed to the
\* release request is the region that was reserved: same base, same length.
FullRelease ==
    (pc = "destroyed" /\ \A i \in DOMAIN calls : calls[i].ok) =>
        /\ \A h \in Host : prot[h] = "free"
        /\ releasedRegion(SubSeq(calls, 1, Len(calls) - 1), releaseArgs)
              = Interval(calls[1].base, calls[1].len)

\* C5: the platform requests of one instance are ordered: one reserve of the
\* whole span first, then the commits in declaration order (program ranges,
\* then guest ranges), each range at most once, and one release last; reads and
\* writes are served only between the end of construction and the release, and
\* nothing happens after the release.
LifecycleLog ==
    /\ calls # <<>> =>
          /\ calls[1].op = "reserve"
          /\ \A t \in RangeTags :
                RangeOf(t).size # 0 /\ t[1] = "program" =>
                    HostsOf(t) \subseteq Interval(calls[1].base, calls[1].len)
    /\ \A i \in DOMAIN calls :
          /\ calls[i].op = "reserve" => i = 1
          /\ calls[i].op = "release" => i = Len(calls) /\ pc = "destroyed"
          /\ \A j \in DOMAIN calls :
                (i < j /\ calls[i].op = "commit" /\ calls[j].op = "commit") =>
                    Rank(calls[i].range) < Rank(calls[j].range)
    /\ pc = "destroyed" => calls # <<>> /\ calls[Len(calls)].op = "release"
    /\ pc \in {"new", "program", "guest", "fatal"} => ops = 0 /\ written = {} /\ ~got.done

LifecycleSteps ==
    /\ pc # "destroyed"
    /\ ops' # ops => pc = "live"
    /\ (calls' # calls /\ calls'[Len(calls')].op \in {"commit", "protect"})
          => pc \in {"program", "guest"}
    /\ (calls' # calls /\ calls'[Len(calls')].op = "reserve") => pc = "new"
    /\ (calls' # calls /\ calls'[Len(calls')].op = "release") => pc = "live"

LifecycleOrder == [](LifecycleLog) /\ [][LifecycleSteps]_vars

\* C5 witness: an instance was constructed with commits of both lists, served
\* an access and was destroyed.
LifecycleOrderWitness ==
    /\ pc = "destroyed"
    /\ ops > 0
    /\ \E i, j \in DOMAIN calls :
          /\ calls[i].op = "commit" /\ calls[i].range[1] = "program"
          /\ calls[j].op = "commit" /\ calls[j].range[1] = "guest"

\* C6: when construction completes, every range with size # 0 and
\* allocateNow=true is committed and holds its initial contents followed by
\* zeros; for every other range no commit or protect request was issued.
ConstructedContents ==
    (pc = "live" /\ ops = 0) =>
        \A t \in RangeTags :
            IF RangeOf(t).size # 0 /\ RangeOf(t).allocate
            THEN \A h \in HostsOf(t) : Committed(prot, h) /\ bytes[h] = ImageAt(t, h)
            ELSE \A i \in DOMAIN calls : calls[i].range # t

\* C7: with a range whose initialContents is longer than its size,
\* construction is never reported complete and none of that range's initial
\* contents reach guest memory.
OversizeIsFatal ==
    \A t \in RangeTags :
        Len(RangeOf(t).initMemory) > RangeOf(t).size =>
            /\ pc \notin {"live", "destroyed"}
            /\ ops = 0
            /\ \A h \in HostsOf(t) : bytes[h] = 0

\* C8: a platform request that reports failure is the last thing the manager
\* does: the manager is in the fatal state and no request follows it.
FailureIsFatal ==
    \A i \in DOMAIN calls : ~calls[i].ok => pc = "fatal" /\ i = Len(calls)

\* The top 8 bits of a w-bit value, unsigned and signed, and the bits below.
Top(x, w) == ToNat(x, w - 8, 8)
SignedTop(x, w) == IF Top(x, w) >= 128 THEN Top(x, w) - 256 ELSE Top(x, w)
Low(x, w) == ToNat(x, 0, w - 8)

\* The value a + b or a - b has as a w-bit number, as <<top 8 bits, rest>>.
Wrapped(isSub, a, b, w) ==
    LET l == Pow2(w - 8)
        d == IF isSub THEN Low(a, w) - Low(b, w) + l ELSE Low(a, w) + Low(b, w)
        t == IF isSub THEN Top(a, w) - Top(b, w) + 255 + (d \div l)
             ELSE Top(a, w) + Top(b, w) + (d \div l)
    IN <<t % 256, d % l>>

\* The true signed sum or difference lies in the w-bit signed range.
SignedFits(isSub, a, b, w) ==
    LET l == Pow2(w - 8)
        d == IF isSub THEN Low(a, w) - Low(b, w) + l ELSE Low(a, w) + Low(b, w)
        t == IF isSub THEN SignedTop(a, w) - SignedTop(b, w) - 1 + (d \div l)
             ELSE SignedTop(a, w) + SignedTop(b, w) + (d \div l)
    IN -128 <= t /\ t <= 127

\* Unsigned carry out of a + b, and a >= b.
CarryOut(a, b, w) == Top(a, w) + Top(b, w) + ((Low(a, w) + Low(b, w)) \div Pow2(w - 8)) >= 256
AtLeast(a, b, w) == Top(a, w) > Top(b, w) \/ (Top(a, w) = Top(b, w) /\ Low(a, w) >= Low(b, w))

\* C9: with flag updates enabled, add returns (a + b) mod 2^w and sub returns
\* (a - b) mod 2^w; afterwards zero = (result = 0), negative = top bit of the
\* result, overflow = the true signed result is outside the w-bit signed
\* range, carry = unsigned carry out (add) or a >= b (sub).  8-bit
\* ADD(0x7F, 0x01) gives 0x80 with overflow, negative, no zero, no carry;
\* 8-bit SUB(0x00, 0x01) gives 0xFF with no carry and negative.
AddSubFlags ==
    (aluDone /\ aluS /\ aluOp \in {"add", "sub"}) =>
        LET isSub == aluOp = "sub" IN
        /\ <<Top(aluC, aluW), Low(aluC, aluW)>> = Wrapped(isSub, aluA, aluB, aluW)
        /\ aluC = Trunc(aluC, aluW)
        /\ cpsr.zero = (aluC = Zero)
        /\ cpsr.negative = (aluC[aluW - 1] = 1)
        /\ cpsr.overflow = ~SignedFits(isSub, aluA, aluB, aluW)
        /\ cpsr.carry = IF isSub THEN AtLeast(aluA, aluB, aluW) ELSE CarryOut(aluA, aluB, aluW)
        /\ (aluOp = "add" /\ aluW = 8 /\ aluA = FromNat(127) /\ aluB = FromNat(1)) =>
              aluC = FromNat(128) /\ cpsr = Flags(FALSE, FALSE, TRUE, TRUE)
        /\ (aluOp = "sub" /\ aluW = 8 /\ aluA = FromNat(0) /\ aluB = FromNat(1)) =>
              aluC = FromNat(255) /\ ~cpsr.carry /\ cpsr.negative

\* C10: for lsl, lsr, asr and ror with flag updates enabled, widths 8 and 32
\* and a shift amount 0 <= b < w: a shift by zero leaves the carry flag as it
\* was, any other shift sets it to the last bit shifted out, bit w-b of a for
\* lsl and bit b-1 of a for lsr, asr and ror.  8-bit LSL(0x81, 1) gives 0x02
\* with carry, no zero, no negative.
ShiftCarry ==
    (aluDone /\ aluS /\ aluOp \in {"lsl", "lsr", "asr", "ror"} /\ aluW \in {8, 32}) =>
        LET b == Count(aluB) IN
        /\ b = 0 => cpsr.carry = cpsr0.carry
        /\ b # 0 => cpsr.carry = (aluA[IF aluOp = "lsl" THEN aluW - b ELSE b - 1] = 1)
        /\ (aluOp = "lsl" /\ aluW = 8 /\ aluA = FromNat(129) /\ b = 1) =>
              aluC = FromNat(2) /\ cpsr.carry /\ ~cpsr.zero /\ ~cpsr.negative

\* C10 witness: 8-bit LSL(0x81, 1) has run.
ShiftCarryWitness ==
    aluDone /\ aluS /\ aluOp = "lsl" /\ aluW = 8 /\ aluA = FromNat(129) /\ aluB = One

\* C11: asr(a, b) returns the w-bit arithmetic right shift for widths 8, 16
\* and 32 and 0 <= b < w: bit i of the result is bit i+b of a while i+b < w
\* and the sign bit of a above that (8-bit ASR(0x80, 4) returns 0xF8); with
\* the sign bit of a clear the result is that of lsr(a, b).
AsrSignFill ==
    (aluDone /\ aluOp = "asr") =>
        LET b == Count(aluB) IN
        /\ \A i \in 0..(aluW - 1) :
              aluC[i] = IF i + b <= aluW - 1 THEN aluA[i + b] ELSE aluA[aluW - 1]
        /\ aluC = Trunc(aluC, aluW)
        /\ aluA[aluW - 1] = 0 => aluC = Trunc(shr(aluA, b), aluW)
        /\ (aluW = 8 /\ aluA = FromNat(128) /\ b = 4) => aluC = FromNat(248)

\* C12: a MemoryBanks seeded from the slice [offset, end) of its source
\* (offset and end both within the source) has copied exactly
\* min(end - offset, banks * bankSize) bytes, none for an empty slice, from
\* source positions offset, offset + 1, ... to the start of the storage, has
\* read no source byte outside [offset, end), and every other storage byte
\* is zero as constructed.
SeedSlice ==
    (bankPc \in {"seeded", "crashed"} /\ offset <= Len(def) /\ sliceEnd <= Len(def)) =>
        LET n == IF sliceEnd >= offset THEN Min(sliceEnd - offset, banks * bankSize) ELSE 0 IN
        /\ bankPc = "seeded"
        /\ copied = n
        /\ \A p \in defRead : offset <= p /\ p < sliceEnd
        /\ Len(allocated) = banks * bankSize
        /\ \A i \in 1..Len(allocated) :
              allocated[i] = IF i <= n THEN def[offset + i] ELSE 0

\* C13: for both growth directions, after a push the pushed value sits at
\* the new stack pointer when isEmpty = false (the pointer advanced first,
\* then the store) and at the old stack pointer when isEmpty = true (the
\* store first, then the pointer advanced).
PushOrder ==
    lastPush.done =>
        /\ lastPush.after # lastPush.before
        /\ lastPush.at = (IF isEmpty THEN lastPush.before ELSE lastPush.after)
        /\ StackGet(stackMem, IF isEmpty THEN lastPush.before ELSE lastPush.after, sizeofT)
              = lastPush.value

\* The stack pointer n elements further in the growth direction.
Advanced(s, n) ==
    IF isAscending THEN (s + n * sizeofT) % AddrSpace
    ELSE (s + n * (AddrSpace - sizeofT)) % AddrSpace

PointerAtDepth ==
    /\ sp = Advanced(sp0, Len(pushed))
    /\ lastPush.done => \E k \in 0..MaxDepth : lastPush.at = Advanced(sp0, k)

PointerStep ==
    /\ Len(pushed') > Len(pushed) => sp' = Advanced(sp, 1)
    /\ Len(pushed') < Len(pushed) => sp = Advanced(sp', 1)

\* C14: for both pointer conventions one push moves the stack pointer by
\* +sizeof(T) (ascending) or -sizeof(T) (descending) modulo the address
\* width and one pop moves it back by the same amount, so with n unmatched
\* pushes the pointer is sp0 +/- n * sizeof(T), and a pushed value is stored
\* a whole number of elements away from sp0.
PointerDelta == [](PointerAtDepth) /\ [][PointerStep]_vars

\* C15: the constructor issues one reserve request, and it covers exactly
\* the host addresses [firstProgramRange.start, lastProgramRange.end): base
\* firstProgramRange.start, length lastProgramRange.end -
\* firstProgramRange.start; right after it those addresses are reserved
\* without access and no other address is.
ReserveSpan ==
    (rev \in {"program", "allocator"} /\ calls # <<>>) =>
        LET first == memory[1]
            last == memory[Len(memory)]
        IN  /\ calls[1].op = "reserve"
            /\ \A i \in DOMAIN calls : calls[i].op = "reserve" => i = 1
            /\ calls[1].base = first.start
            /\ calls[1].len = end(last) - first.start
            /\ (calls[1].ok /\ Len(calls) = 1) =>
                  \A h \in Host :
                      prot[h] = IF first.start <= h /\ h < end(last) THEN "reserved" ELSE "free"

\* C16: every commit request of the constructor, for a program range or a
\* guest range, targets a host interval inside the region its reserve
\* request named; a guest range starting at guest address s is committed
\* firstProgramRange.size + s bytes past the base of the reservation.
CommitInside ==
    \A i \in DOMAIN calls :
        calls[i].op = "commit" =>
            /\ calls[1].op = "reserve"
            /\ calls[1].base <= calls[i].base
            /\ calls[i].base + calls[i].len <= calls[1].base + calls[1].len
            /\ (rev # "banked" /\ calls[i].range[1] = "guest") =>
                  calls[i].base = calls[1].base + memory[1].size + RangeOf(calls[i].range).start

====
